---- MODULE Spec2Model ----
(***************************************************************************)
(* Model of preferredsDailyUpdate.py: the FIGI check-digit validator       *)
(* (checkFIGIDigit) and the Bloomberg data-file reader (BbgDataFile:       *)
(* parseFileText, __init__, getDataForFields).                             *)
(*                                                                         *)
(* A Python string is a sequence of one-character strings, so that strip,  *)
(* split, substring search, int() and str() are computed, not assumed.     *)
(***************************************************************************)
EXTENDS Integers, Sequences, FiniteSets, TLC

VARIABLES
    pc,        \* where the program is: "start", "loop", "built", "raised", "figi", "figidone"
    state,     \* parseFileText: the local `state` (-1, 0, 1, 2)
    fields,    \* parseFileText: the local list `fields`
    dataList,  \* parseFileText: the local list `dataList` (rows, each a dict)
    dataDict,  \* parseFileText: the local dict `dataDict` (figi -> row)
    file,      \* the lines readlines() returned, when the input is fixed in advance
    nlines,    \* how many lines the loop has consumed
    stdout,    \* what the program has printed
    exc,       \* the exception that ended the parse (NoExc while none)
    self,      \* the BbgDataFile object once __init__ has assigned its attributes
    fchannel,  \* the file object __init__ opened: "none", "open", "closed"
    columns,   \* getDataForFields: the argument of the last call
    outData,   \* getDataForFields: what the last call returned
    qexc,      \* getDataForFields: the exception the last call raised (NoExc if none)
    figi,      \* checkFIGIDigit called on its own: the argument
    result     \* checkFIGIDigit called on its own: "True", "False" or the exception raised

vars == <<pc, state, fields, dataList, dataDict, file, nlines, stdout, exc, self,
          fchannel, columns, outData, qexc, figi, result>>

(***************************************************************************)
(* Bounds of the model.                                                    *)
(***************************************************************************)
\* the longest input file, in lines
MaxLines == 10
\* the most field names, accepted rows and printed messages of one parse
MaxFields == 2
MaxRows == 2
MaxOut == 2
\* how many trailing body characters of the base identifier are varied
VaryLen == 2
\* the longest column list handed to getDataForFields
MaxCols == 2

(***************************************************************************)
(* Characters and Python string primitives.                                *)
(***************************************************************************)
Digits == <<"0","1","2","3","4","5","6","7","8","9">>
Upper == <<"A","B","C","D","E","F","G","H","I","J","K","L","M","N","O","P","Q","R","S","T","U","V","W","X","Y","Z">>
Lower == <<"a","b","c","d","e","f","g","h","i","j","k","l","m","n","o","p","q","r","s","t","u","v","w","x","y","z">>
Whitespace == {" ", "\n", "\t"}

Range(s) == {s[i] : i \in 1..Len(s)}

IndexOf(s, x) == CHOOSE i \in 1..Len(s) : s[i] = x

RECURSIVE SumSeq(_)
SumSeq(s) == IF s = <<>> THEN 0 ELSE s[1] + SumSeq(Tail(s))

\* str.isdigit / str.isalpha / str.isalnum on one character (ASCII str)
DigitChars == Range(Digits)
LetterChars == Range(Upper) \cup Range(Lower)
isdigit(ch) == ch \in DigitChars
isalpha(ch) == ch \in LetterChars
\* a test that only asks for a non-empty string
nonEmpty(s) == Len(s) > 0
\* str.isalnum(): non-empty and every character a letter or a digit
isalnum(s) == Len(s) > 0 /\ \A i \in 1..Len(s) : isalpha(s[i]) \/ isdigit(s[i])

\* str.strip(): drop leading and trailing whitespace
RECURSIVE lstrip(_)
lstrip(s) == IF s # <<>> /\ s[1] \in Whitespace THEN lstrip(Tail(s)) ELSE s
RECURSIVE rstrip(_)
rstrip(s) == IF s # <<>> /\ s[Len(s)] \in Whitespace THEN rstrip(SubSeq(s, 1, Len(s) - 1)) ELSE s
strip(s) == rstrip(lstrip(s))

\* str.split(sep) for a one-character separator: k separators give k+1 tokens
RECURSIVE splitFrom(_, _, _)
splitFrom(s, sep, cur) ==
    IF s = <<>> THEN <<cur>>
    ELSE IF s[1] = sep THEN <<cur>> \o splitFrom(Tail(s), sep, <<>>)
    ELSE splitFrom(Tail(s), sep, Append(cur, s[1]))
split(s, sep) == splitFrom(s, sep, <<>>)

\* `sub in s` for strings
contains(s, sub) == \E i \in 1..(Len(s) - Len(sub) + 1) : SubSeq(s, i, i + Len(sub) - 1) = sub

\* int(ch) for one decimal digit character
intOfDigit(ch) == IndexOf(Digits, ch) - 1

\* int(s): surrounding whitespace and one sign allowed, then one or more digits;
\* anything else raises ValueError
intBody(s) == LET t == strip(s) IN IF t # <<>> /\ t[1] \in {"+", "-"} THEN Tail(t) ELSE t
intOk(s) == intBody(s) # <<>> /\ \A i \in 1..Len(intBody(s)) : isdigit(intBody(s)[i])
RECURSIVE intDigits(_)
intDigits(s) == IF s = <<>> THEN 0 ELSE intDigits(SubSeq(s, 1, Len(s) - 1)) * 10 + intOfDigit(s[Len(s)])
int(s) == LET t == strip(s) IN IF t[1] = "-" THEN 0 - intDigits(intBody(s)) ELSE intDigits(intBody(s))

\* str(x) for an integer x >= 0
RECURSIVE str(_)
str(x) == IF x < 10 THEN <<Digits[x + 1]>> ELSE str(x \div 10) \o <<Digits[(x % 10) + 1]>>

(***************************************************************************)
(* FIGI check digit.                                                       *)
(***************************************************************************)
FigiLen == 12

\* dict(zip('A'..'Z', range(10, 36)))
figiAlphaNumMap == [ch \in Range(Upper) |-> IndexOf(Upper, ch) + 9]

\* sum(map(int, str(x)))
digitSum(x) == LET sx == str(x) IN SumSeq([i \in 1..Len(sx) |-> intOfDigit(sx[i])])

\* the doubling applied at the even 0-based indices instead
doubledEven(xx) == [i \in 1..Len(xx) |-> IF (i - 1) % 2 = 0 THEN xx[i] * 2 ELSE xx[i]]

\* yy: every second number (odd 0-based index) doubled
doubled(xx) == [i \in 1..Len(xx) |-> IF (i - 1) % 2 = 1 THEN xx[i] * 2 ELSE xx[i]]

\* a check value left at 10 when the digit sum is a multiple of 10
tmpNoWrap(zz) == 10 - (zz % 10)

\* tmp: the distance of the digit sum from the next multiple of 10
tmpOf(zz) == (10 - zz) % 10

\* checkFIGIDigit(figi): "True" / "False" for the value returned; "KeyError" when
\* figiAlphaNumMap[ch] is looked up for a letter that is not a key and "ValueError"
\* when int(ch) is given a character that is not a digit, whichever character of
\* figi11 comes first
checkFIGIDigit(f) ==
    IF Len(f) # FigiLen THEN "False"
    ELSE IF ~isalnum(f) THEN "False"
    ELSE LET checkDigit == <<f[Len(f)]>>
             figi11 == SubSeq(f, 1, Len(f) - 1)
             fails == { i \in 1..Len(figi11) :
                          IF isalpha(figi11[i]) THEN figi11[i] \notin DOMAIN figiAlphaNumMap
                          ELSE ~isdigit(figi11[i]) }
         IN  IF fails # {}
             THEN LET first == CHOOSE i \in fails : \A j \in fails : i <= j
                  IN  IF isalpha(figi11[first]) THEN "KeyError" ELSE "ValueError"
             ELSE LET xx == [i \in 1..Len(figi11) |->
                                IF isalpha(figi11[i]) THEN figiAlphaNumMap[figi11[i]]
                                ELSE intOfDigit(figi11[i])]
                      yy == doubled(xx)
                      zz == SumSeq([i \in 1..Len(yy) |-> digitSum(yy[i])])
                      tmp == tmpOf(zz)
                  IN  IF str(tmp) = checkDigit THEN "True" ELSE "False"

(***************************************************************************)
(* The Bloomberg data file: marker lines and the inputs of the model.      *)
(***************************************************************************)
StartOfFile == <<"S","T","A","R","T","-","O","F","-","F","I","L","E">>
StartOfFields == <<"S","T","A","R","T","-","O","F","-","F","I","E","L","D","S">>
EndOfFields == <<"E","N","D","-","O","F","-","F","I","E","L","D","S">>
StartOfData == <<"S","T","A","R","T","-","O","F","-","D","A","T","A">>
EndOfData == <<"E","N","D","-","O","F","-","D","A","T","A">>
DataRecord == <<"D","A","T","A","R","E","C","O","R","D">>

\* identifiers used in the input lines
FigiIBM == <<"B","B","G","0","0","0","B","L","N","N","H","6">>
FigiOther == <<"B","B","G","0","0","0","B","9","X","R","Y","4">>
FigiBadDigit == <<"B","B","G","0","0","0","B","L","N","N","H","5">>
FigiLower == <<"B","B","G","0","0","0","b","l","n","n","h","6">>
FigiShort == <<"B","B","G","0","0","0","B","L","N">>

NL == <<"\n">>
Meta == <<"m","|","m","|","m","|">>

\* the raw lines an input file is made of (as readlines() yields them)
MarkerLines ==
    { StartOfFile \o NL, StartOfFields \o NL, EndOfFields \o NL,
      StartOfData \o NL, <<" ">> \o EndOfData }
FieldLines == { <<"A">> \o NL, <<"B">> \o NL }
Junk == <<"X","=","1">> \o NL
PreambleLines ==
    { NL, Junk,
      DataRecord \o <<"=","1">> \o NL,
      <<"T","O","T","A","L"," ">> \o DataRecord \o <<"S"," ","="," ","0">> \o NL,
      DataRecord \o NL,
      DataRecord \o <<"=","x">> \o NL }
\* a delimiter-terminated data line: 3 metadata tokens, k values, the last one `id`
RECURSIVE Pad(_)
Pad(n) == IF n <= 0 THEN <<>> ELSE <<"7","|">> \o Pad(n - 1)
RowLine(k, id) == Meta \o Pad(k - 1) \o id \o <<"|">> \o NL
\* a data line that does not end in a delimiter
Unterminated == Meta \o FigiIBM
DataLines ==
    { RowLine(1, FigiIBM), RowLine(2, FigiOther), RowLine(1, FigiBadDigit),
      RowLine(1, FigiLower), RowLine(1, FigiShort), Unterminated }
FieldSectionLines == FieldLines \cup { EndOfFields \o NL }
LineSet == MarkerLines \cup FieldLines \cup PreambleLines \cup DataLines

(***************************************************************************)
(* Exceptions, printed messages, rows.                                     *)
(***************************************************************************)
NoExc == [type |-> "none", msg |-> "", carried |-> <<>>]
Raise(t, m, c) == [type |-> t, msg |-> m, carried |-> c]

InsufficientValues == Raise("Exception", "Insufficient values found in row", <<>>)
NoStartOfFile == Raise("Exception", "File Structure Invalid. Could not find START-OF-FILE", <<>>)
NotGraceful == Raise("Exception", "File Structure Invalid. File does not end gracefully", <<>>)

Printed(m, a) == [msg |-> m, arg |-> a]
RowCountWarning == Printed("WARNING: Not all data rows loaded successfully from bbg file", <<>>)
FigiInvalid(f) == Printed("FIGI check digit invalid, skipping line for ID_BB_GLOBAL: ", f)

\* dict(zip(keys, values)): a later pair with the same key replaces an earlier one
dictZip(keys, values) ==
    LET n == IF Len(keys) < Len(values) THEN Len(keys) ELSE Len(values)
    IN  [k \in {keys[i] : i \in 1..n} |->
            values[CHOOSE i \in 1..n : keys[i] = k /\ \A j \in (i + 1)..n : keys[j] # k]]

\* d[k] = v on a dict
dictSet(d, k, v) == [x \in DOMAIN d \cup {k} |-> IF x = k THEN v ELSE d[x]]

(***************************************************************************)
(* BbgDataFile.__init__ and parseFileText.                                 *)
(***************************************************************************)
Init ==
    /\ pc = "start"
    /\ state = -1
    /\ fields = <<>>
    /\ dataList = <<>>
    /\ dataDict = <<>>
    /\ file = <<>>
    /\ nlines = 0
    /\ stdout = <<>>
    /\ exc = NoExc
    /\ self = <<>>
    /\ fchannel = "none"
    /\ columns = <<>>
    /\ outData = <<>>
    /\ qexc = NoExc
    /\ figi = <<>>
    /\ result = ""

\* __init__ opens the file and reads its lines; parseFileText sets up its locals
Open ==
    /\ pc = "start"
    /\ pc' = "loop"
    /\ fchannel' = "open"
    /\ state' = -1
    /\ fields' = <<>>
    /\ dataList' = <<>>
    /\ dataDict' = <<>>
    /\ UNCHANGED <<file, nlines, stdout, exc, self, columns, outData, qexc, figi, result>>

\* the for loop takes the next line of the file
Consume(raw) ==
    /\ pc = "loop"
    /\ nlines' = nlines + 1
    /\ UNCHANGED <<file, self, fchannel, columns, outData, qexc, figi, result>>

\* an exception leaves parseFileText and __init__: the locals are as they were,
\* the file object among them
Abort(e) ==
    /\ pc' = "raised"
    /\ exc' = e
    /\ UNCHANGED <<state, fields, dataList, dataDict, stdout>>

\* a reader for which any other line before START-OF-FILE is fatal
AwaitingStartStrict(raw) ==
    /\ state = -1
    /\ Consume(raw)
    /\ IF strip(raw) = StartOfFile
       THEN state' = 0 /\ UNCHANGED <<pc, exc, fields, dataList, dataDict, stdout>>
       ELSE Abort(NoStartOfFile)

\* state == -1: START-OF-FILE moves to 0; any other line matches no branch
AwaitingStart(raw) ==
    /\ state = -1
    /\ Consume(raw)
    /\ state' = IF strip(raw) = StartOfFile THEN 0 ELSE -1
    /\ UNCHANGED <<pc, exc, fields, dataList, dataDict, stdout>>

\* a warning only when the file announces more rows than were loaded
announcesMore(nrow, rows) == nrow > Len(rows)

\* a comparison with the number of rows the preamble can have seen
differsFromNone(nrow, rows) == nrow # 0

\* nrow != len(dataList)
rowCountDiffers(nrow, rows) == nrow # Len(rows)

\* state == 0: section starts, the DATARECORD row-count line, anything else skipped
Neutral(raw) ==
    /\ state = 0
    /\ Consume(raw)
    /\ LET l == strip(raw)
           parts == split(l, "=")
       IN  IF l = StartOfFields
           THEN state' = 1 /\ UNCHANGED <<pc, exc, fields, dataList, dataDict, stdout>>
           ELSE IF l = StartOfData
           THEN state' = 2 /\ UNCHANGED <<pc, exc, fields, dataList, dataDict, stdout>>
           ELSE IF contains(l, DataRecord)
           THEN IF Len(parts) < 2
                THEN Abort(Raise("IndexError", "list index out of range", <<>>))
                ELSE IF ~intOk(parts[2])
                THEN Abort(Raise("ValueError", "invalid literal for int()", <<parts[2]>>))
                ELSE /\ stdout' = IF rowCountDiffers(int(parts[2]), dataList)
                                  THEN Append(stdout, RowCountWarning)
                                  ELSE stdout
                     /\ UNCHANGED <<pc, exc, state, fields, dataList, dataDict>>
           ELSE UNCHANGED <<pc, exc, state, fields, dataList, dataDict, stdout>>

\* a field list that keeps the latest name only
fieldsReplace(flds, l) == <<l>>

\* fields.append(line)
fieldsAppend(flds, l) == Append(flds, l)

\* state == 1: END-OF-FIELDS closes the section, any other line is a field name
InFields(raw) ==
    /\ state = 1
    /\ Consume(raw)
    /\ LET l == strip(raw)
       IN  IF l = EndOfFields
           THEN state' = 0 /\ UNCHANGED fields
           ELSE fields' = fieldsAppend(fields, l) /\ UNCHANGED state
    /\ UNCHANGED <<pc, exc, dataList, dataDict, stdout>>

\* the values of a data line with the last token kept
datarowKeepLast(l) ==
    LET toks == split(l, "|")
    IN  SubSeq(toks, 4, Len(toks))

\* the values of a data line: the tokens after the first three, less the last one
datarowOf(l) ==
    LET toks == split(l, "|")
        data == SubSeq(toks, 4, Len(toks))
    IN  SubSeq(data, 1, Len(data) - 1)

\* a row rejected only when it has too few values
tooFew(datarow, flds) == Len(datarow) < Len(flds)

\* len(datarow) != len(fields)
mismatch(datarow, flds) == Len(datarow) # Len(flds)

\* state == 2: END-OF-DATA closes the section, any other line is a data row
InData(raw) ==
    /\ state = 2
    /\ Consume(raw)
    /\ LET l == strip(raw)
           datarow == datarowOf(l)
           id == datarow[Len(datarow)]
           row == dictZip(fields, datarow)
       IN  IF l = EndOfData
           THEN state' = 0 /\ UNCHANGED <<pc, exc, fields, dataList, dataDict, stdout>>
           ELSE IF mismatch(datarow, fields)
           THEN Abort(InsufficientValues)
           ELSE IF datarow = <<>>
           THEN Abort(Raise("IndexError", "list index out of range", <<>>))
           ELSE IF checkFIGIDigit(id) = "KeyError"
           THEN Abort(Raise("KeyError", "", <<id>>))
           ELSE IF checkFIGIDigit(id) = "False"
           THEN /\ stdout' = Append(stdout, FigiInvalid(id))
                /\ UNCHANGED <<pc, exc, state, fields, dataList, dataDict>>
           ELSE /\ dataList' = Append(dataList, row)
                /\ dataDict' = dictSet(dataDict, id, row)
                /\ UNCHANGED <<pc, exc, state, fields, stdout>>

\* a final check that only looks for START-OF-FILE
finalCheckStartOnly(st) == IF st = -1 THEN NoStartOfFile ELSE NoExc

\* the checks after the loop: the exception raised, NoExc when the parse returns
finalCheck(st) ==
    IF st = -1 THEN NoStartOfFile
    ELSE IF st # 0 THEN NotGraceful
    ELSE NoExc

\* the lines are exhausted: the final checks, then __init__ assigns the attributes
\* and returns. No close() is ever called: when __init__ returns, its local
\* `fchannel` is the last reference to the file object, which a reference-counting
\* interpreter closes there and any other leaves open; when an exception leaves
\* __init__, the traceback keeps the frame, and the open file with it
EndOfInput ==
    /\ pc = "loop"
    /\ IF finalCheck(state) # NoExc
       THEN Abort(finalCheck(state)) /\ UNCHANGED <<self, fchannel>>
       ELSE /\ pc' = "built"
            /\ self' = <<[fields |-> fields, dataList |-> dataList, nrows |-> Len(dataList)]>>
            /\ fchannel' \in {"open", "closed"}
            /\ UNCHANGED <<exc, state, fields, dataList, dataDict, stdout>>
    /\ UNCHANGED <<file, nlines, columns, outData, qexc, figi, result>>

(***************************************************************************)
(* BbgDataFile.getDataForFields.                                           *)
(***************************************************************************)
ColumnNames == { <<"A">>, <<"B">>, <<"U">>, <<"V">> }
RECURSIVE SeqsUpTo(_, _)
SeqsUpTo(S, n) ==
    IF n = 0 THEN { <<>> }
    ELSE LET shorter == SeqsUpTo(S, n - 1)
         IN  shorter \cup { Append(q, x) : q \in shorter, x \in S }
ColumnLists == SeqsUpTo(ColumnNames, MaxCols) \ { <<>> }

\* the first (row, column) whose lookup row[k] fails, rows outermost
missingKey(rows, cols) ==
    LET r == CHOOSE i \in 1..Len(rows) :
                 /\ \E j \in 1..Len(cols) : cols[j] \notin DOMAIN rows[i]
                 /\ \A h \in 1..(i - 1) : \A j \in 1..Len(cols) : cols[j] \in DOMAIN rows[h]
        c == CHOOSE j \in 1..Len(cols) :
                 /\ cols[j] \notin DOMAIN rows[r]
                 /\ \A h \in 1..(j - 1) : cols[h] \in DOMAIN rows[r]
    IN  cols[c]

\* getDataForFields(columns); the object is followed up to its first call, which
\* leaves the object as it is
getDataForFields(cols) ==
    /\ pc = "built"
    /\ columns = <<>>
    /\ columns' = cols
    /\ LET obj == self[1]
           goodFields == [i \in 1..Len(cols) |-> cols[i] \in Range(obj.fields)]
       IN  IF \E i \in 1..Len(cols) : ~goodFields[i]
           THEN \* 'Data not available ...' + [names] : str + list raises TypeError
                /\ qexc' = Raise("TypeError", "cannot concatenate 'str' and 'list' objects", <<>>)
                /\ outData' = <<>>
           ELSE IF \E i \in 1..Len(obj.dataList) : \E j \in 1..Len(cols) :
                       cols[j] \notin DOMAIN obj.dataList[i]
           THEN /\ qexc' = Raise("KeyError", "", <<missingKey(obj.dataList, cols)>>)
                /\ outData' = <<>>
           ELSE /\ qexc' = NoExc
                /\ outData' = [i \in 1..Len(obj.dataList) |->
                                  [j \in 1..Len(cols) |-> obj.dataList[i][cols[j]]]]
    /\ UNCHANGED <<pc, state, fields, dataList, dataDict, file, nlines, stdout, exc,
                   self, fchannel, figi, result>>

\* one pass of the for loop over `raw`
Step(raw) == AwaitingStart(raw) \/ Neutral(raw) \/ InFields(raw) \/ InData(raw)

\* the input files of Spec: any line of LineSet at any place, a fields section
\* holding field names only, within the bounds
WithinBounds ==
    /\ Len(fields') <= MaxFields
    /\ Len(dataList') <= MaxRows
    /\ Len(stdout') <= MaxOut
ProcessLine == \E raw \in LineSet :
    /\ nlines < MaxLines
    /\ state = 1 => raw \in FieldSectionLines
    /\ Step(raw)
    /\ WithinBounds

Project == \E cols \in ColumnLists : getDataForFields(cols)

Next == Open \/ ProcessLine \/ EndOfInput \/ Project

Spec == Init /\ [][Next]_vars

(***************************************************************************)
(* The parse of a file fixed in advance: readlines() returns `file` and    *)
(* the loop takes its lines in order.                                      *)
(***************************************************************************)
Heads ==
    { <<StartOfFile \o NL>>,
      <<Junk, StartOfFile \o NL>>,
      <<Junk>>,
      <<StartOfFile \o NL, DataRecord \o <<"=","1">> \o NL>>,
      <<StartOfFile \o NL, DataRecord \o <<"=","0">> \o NL>> }
Tails ==
    { <<<<" ">> \o EndOfData>>,
      <<>>,
      <<EndOfData \o NL, DataRecord \o <<"=","1">> \o NL>> }
RowLinesFor(k) ==
    { RowLine(k, id) : id \in {FigiIBM, FigiOther, FigiBadDigit, FigiLower} }
        \cup { Unterminated }
FilesWith(names) ==
    { h \o <<StartOfFields \o NL>> \o names \o <<EndOfFields \o NL, StartOfData \o NL>>
        \o rows \o t :
        h \in Heads, rows \in SeqsUpTo(RowLinesFor(Len(names)), MaxRows), t \in Tails }
\* the input files: the empty file, and every file of FilesWith for up to MaxFields names
InitFile ==
    /\ pc = "start"
    /\ state = -1
    /\ fields = <<>>
    /\ dataList = <<>>
    /\ dataDict = <<>>
    /\ \/ file = <<>>
       \/ \E names \in SeqsUpTo(FieldLines, MaxFields) : file \in FilesWith(names)
    /\ nlines = 0
    /\ stdout = <<>>
    /\ exc = NoExc
    /\ self = <<>>
    /\ fchannel = "none"
    /\ columns = <<>>
    /\ outData = <<>>
    /\ qexc = NoExc
    /\ figi = <<>>
    /\ result = ""

ReadLine == nlines < Len(file) /\ Step(file[nlines + 1])

EndOfFile == nlines = Len(file) /\ EndOfInput

NextFile == Open \/ ReadLine \/ EndOfFile

SpecFile == InitFile /\ [][NextFile]_vars

(***************************************************************************)
(* checkFIGIDigit called on its own.                                       *)
(***************************************************************************)
FigiAlphabet == { "0", "9", "A", "H", "N", "Z", "a", "-" }
CheckChars == Range(Digits) \cup { "A", "a", "-" }
Zeros == [i \in 1..(FigiLen - 1) |-> "0"]
FigiBodies ==
    { SubSeq(FigiIBM, 1, FigiLen - 1), Zeros }
        \cup { [i \in 1..(FigiLen - 1) |-> c] : c \in { "9", "Z" } }
\* a body with its last VaryLen characters replaced, then a check character
FigiVaried(b, mid, c) == SubSeq(b, 1, Len(b) - VaryLen) \o mid \o <<c>>
\* strings that are not 12 characters long
FigiOddLength == { <<>>, SubSeq(FigiIBM, 1, FigiLen - 1), FigiIBM \o <<"6">> }

InitFigi ==
    /\ pc = "figi"
    /\ \/ figi \in FigiOddLength
       \/ \E b \in FigiBodies, mid \in [1..VaryLen -> FigiAlphabet], c \in CheckChars :
              figi = FigiVaried(b, mid, c)
    /\ result = ""
    /\ state = -1
    /\ fields = <<>>
    /\ dataList = <<>>
    /\ dataDict = <<>>
    /\ file = <<>>
    /\ nlines = 0
    /\ stdout = <<>>
    /\ exc = NoExc
    /\ self = <<>>
    /\ fchannel = "none"
    /\ columns = <<>>
    /\ outData = <<>>
    /\ qexc = NoExc

CallCheckFIGIDigit ==
    /\ pc = "figi"
    /\ pc' = "figidone"
    /\ result' = checkFIGIDigit(figi)
    /\ UNCHANGED <<state, fields, dataList, dataDict, file, nlines, stdout, exc, self,
                   fchannel, columns, outData, qexc, figi>>

NextFigi == CallCheckFIGIDigit

SpecFigi == InitFigi /\ [][NextFigi]_vars

(***************************************************************************)
(* The check digit as the specification words it, computed arithmetically  *)
(* (no string conversion), for comparison with checkFIGIDigit.             *)
(***************************************************************************)
Terminal == pc \in {"built", "raised"}

\* digit = itself, A..Z = 10..35: the place in 0..9A..Z
ValueOf(ch) == IndexOf(Digits \o Upper, ch) - 1
\* decimal digits of a value below 100
DigitsOf(v) == (v \div 10) + (v % 10)
\* T: odd 0-based positions doubled first, digits summed second
TotalOf(body) ==
    SumSeq([i \in 1..Len(body) |->
                DigitsOf(IF i % 2 = 0 THEN 2 * ValueOf(body[i]) ELSE ValueOf(body[i]))])
ExpectedDigit(body) == (10 - (TotalOf(body) % 10)) % 10
UpperAlnum(s) == \A i \in 1..Len(s) : s[i] \in Range(Digits) \cup Range(Upper)
\* an identifier as the data model defines it
ValidIdentifier(id) ==
    /\ Len(id) = 12
    /\ UpperAlnum(id)
    /\ id[12] = Digits[ExpectedDigit(SubSeq(id, 1, 11)) + 1]

\* C1: for every 12-character identifier of digits and uppercase letters,
\* checkFIGIDigit returns true iff the 12th character is the decimal digit
\* (10 - (T mod 10)) mod 10, T the digit sum of the 11 body values after the values
\* at odd 0-based positions are doubled; the body "00000000000" expects digit 0.
C1_CheckDigit ==
    (pc = "figidone" /\ Len(figi) = 12 /\ UpperAlnum(figi)) =>
        /\ result \in {"True", "False"}
        /\ (result = "True") <=> (figi[12] = Digits[ExpectedDigit(SubSeq(figi, 1, 11)) + 1])
        /\ SubSeq(figi, 1, 11) = Zeros => ((result = "True") <=> (figi[12] = "0"))

C1_Witness == pc = "figidone" /\ figi = FigiIBM /\ result = "True"

\* C10: checkFIGIDigit returns false for every 12-character alphanumeric string
\* whose first 11 characters contain a lowercase letter.
C10_LowercaseReturnsFalse ==
    (/\ pc = "figidone"
     /\ Len(figi) = 12
     /\ isalnum(figi)
     /\ \E i \in 1..11 : figi[i] \in Range(Lower)) => result = "False"

(***************************************************************************)
(* The shape of an input file, read off its lines.                         *)
(***************************************************************************)
Places(f, marker) == { i \in 1..Len(f) : strip(f[i]) = marker }
Place(f, marker) == CHOOSE i \in Places(f, marker) : TRUE
\* START-OF-FILE first, then one fields section and one data section, each closed
OneOfEach(f) ==
    /\ Places(f, StartOfFile) = {1}
    /\ \A m \in {StartOfFields, EndOfFields, StartOfData, EndOfData} :
           Cardinality(Places(f, m)) = 1
    /\ Place(f, StartOfFields) < Place(f, EndOfFields)
    /\ Place(f, EndOfFields) < Place(f, StartOfData)
    /\ Place(f, StartOfData) < Place(f, EndOfData)
NamesOf(f) ==
    LET sec == SubSeq(f, Place(f, StartOfFields) + 1, Place(f, EndOfFields) - 1)
    IN  [i \in 1..Len(sec) |-> strip(sec[i])]
DataOf(f) == SubSeq(f, Place(f, StartOfData) + 1, Place(f, EndOfData) - 1)
\* a data line of 3 metadata tokens and k values that ends in a delimiter
WellFramed(raw, k) ==
    LET t == split(strip(raw), "|") IN Len(t) = k + 4 /\ t[Len(t)] = <<>>
IdentifierOf(raw) == LET t == split(strip(raw), "|") IN t[Len(t) - 1]
IdsOf(rawLines) == [i \in 1..Len(rawLines) |-> IdentifierOf(rawLines[i])]
IsValid(id) == ValidIdentifier(id)
IsInvalid(id) == ~ValidIdentifier(id)
SkipReports == SelectSeq(stdout, LAMBDA m : m.msg = FigiInvalid(<<>>).msg)

\* C2: in a file whose data lines are all well framed, the rows whose identifier
\* fails the checksum are skipped and only they: the parse succeeds, the result
\* holds the lines with a valid identifier in file order (N - B rows), and every
\* skipped row is reported with its identifier.
C2_OnlyBadRowsSkipped ==
    (/\ Terminal
     /\ OneOfEach(file)
     /\ Len(NamesOf(file)) >= 1
     /\ \A i \in 1..Len(DataOf(file)) : WellFramed(DataOf(file)[i], Len(NamesOf(file)))) =>
        LET names == NamesOf(file)
            ids == IdsOf(DataOf(file))
            good == SelectSeq(ids, IsValid)
            bad == SelectSeq(ids, IsInvalid)
        IN  /\ pc = "built"
            /\ self[1].nrows = Len(ids) - Len(bad)
            /\ Len(self[1].dataList) = Len(good)
            /\ \A i \in 1..Len(good) : self[1].dataList[i][names[Len(names)]] = good[i]
            /\ SkipReports = [i \in 1..Len(bad) |-> FigiInvalid(bad[i])]

\* the number of candidate values of a data line: its tokens less the three
\* metadata tokens and the trailing one
ValueCount(raw) ==
    LET n == Len(split(strip(raw), "|")) IN IF n > 4 THEN n - 4 ELSE 0

C4_CompletionRule ==
    [][/\ (pc = "loop" /\ pc' # "loop" /\ nlines' = nlines) =>
              /\ (pc' = "built") <=> (state = 0)
              /\ state = 0 => (exc' = NoExc /\ self' # <<>>)
              /\ state = -1 => (pc' = "raised" /\ exc' = NoStartOfFile /\ self' = <<>>)
              /\ state \in {1, 2} => (pc' = "raised" /\ exc' = NotGraceful /\ self' = <<>>)
       /\ (pc # "built" /\ pc' = "built") => (pc = "loop" /\ nlines' = nlines /\ state = 0)]_vars

C4_Witness == pc = "raised" /\ exc = NotGraceful /\ state = 2 /\ Len(dataList) >= 1

\* C5 as claimed: every input whose first line is not START-OF-FILE fails with
\* MissingFileStart, whatever follows.
C5_OtherFirstLineFatal ==
    (Terminal /\ Len(file) >= 1 /\ strip(file[1]) # StartOfFile) =>
        (pc = "raised" /\ exc = NoStartOfFile)

\* C5 amended: lines before START-OF-FILE are skipped; an input fails with
\* MissingFileStart iff none of its lines is START-OF-FILE after trimming.
C5_FailsIffNoStartLine ==
    Terminal => ((pc = "raised" /\ exc = NoStartOfFile) <=> (Places(file, StartOfFile) = {}))

C5_Witness ==
    pc = "built" /\ strip(file[1]) # StartOfFile /\ self[1].nrows >= 1

\* a file of START-OF-FILE, k >= 1 distinct names in one fields section, then m
\* delimiter-terminated data lines of k values with a valid identifier last
WellFormed(f, k, m) ==
    /\ k >= 1 /\ m >= 0
    /\ Len(f) = k + m + 5
    /\ strip(f[1]) = StartOfFile
    /\ strip(f[2]) = StartOfFields
    /\ \A i \in 3..(k + 2) : \A j \in 3..(k + 2) : i # j => strip(f[i]) # strip(f[j])
    /\ \A i \in 3..(k + 2) :
           strip(f[i]) \notin {StartOfFile, StartOfFields, EndOfFields, StartOfData, EndOfData}
    /\ strip(f[k + 3]) = EndOfFields
    /\ strip(f[k + 4]) = StartOfData
    /\ \A i \in (k + 5)..(k + m + 4) :
           WellFramed(f[i], k) /\ ValidIdentifier(IdentifierOf(f[i]))
    /\ strip(f[k + m + 5]) = EndOfData

\* C6: a well-formed file of K names and M rows parses successfully to the K
\* declared names in declared order and to M rows.
C6_RoundTrip ==
    Terminal =>
        \A k \in 1..Len(file) : \A m \in 0..Len(file) :
            WellFormed(file, k, m) =>
                /\ pc = "built"
                /\ self[1].fields = [i \in 1..k |-> strip(file[i + 2])]
                /\ self[1].nrows = m
                /\ Len(self[1].dataList) = m

C6_Witness ==
    pc = "built" /\ WellFormed(file, 2, 2) /\ self[1].nrows = 2 /\ Len(self[1].fields) = 2

NoDuplicates(s) == \A i \in 1..Len(s) : \A j \in 1..Len(s) : i # j => s[i] # s[j]

\* C7: END-OF-FIELDS read with a name declared twice rejects the parse, so the
\* parse never goes on in Neutral, and never succeeds, with a duplicate name.
C7_DuplicateFieldsRejected ==
    /\ (pc = "loop" /\ state = 0) => NoDuplicates(fields)
    /\ pc = "built" => NoDuplicates(self[1].fields)

\* C8: when every requested column is a declared field, the projection has one
\* entry per accepted row, in row order, entry i holding row i's values at the
\* requested columns in the requested order.
C8_ProjectDeclared ==
    (/\ pc = "built"
     /\ columns # <<>>
     /\ \A j \in 1..Len(columns) : columns[j] \in Range(self[1].fields)) =>
        /\ qexc = NoExc
        /\ Len(outData) = self[1].nrows
        /\ \A i \in 1..Len(outData) :
               /\ Len(outData[i]) = Len(columns)
               /\ \A j \in 1..Len(columns) :
                      /\ columns[j] \in DOMAIN self[1].dataList[i]
                      /\ outData[i][j] = self[1].dataList[i][columns[j]]

Undeclared(c) == c \notin Range(self[1].fields)

\* C9: a projection asking for undeclared columns signals UnknownColumns carrying
\* every undeclared name, in request order, and returns no data.
C9_UnknownColumnsNamed ==
    (/\ pc = "built"
     /\ columns # <<>>
     /\ \E j \in 1..Len(columns) : Undeclared(columns[j])) =>
        /\ qexc.type = "Exception"
        /\ qexc.carried = SelectSeq(columns, Undeclared)
        /\ outData = <<>>

\* the decimal digits that make body + d validate
Validating(body) == { d \in Range(Digits) : checkFIGIDigit(body \o <<d>>) = "True" }

\* C11: for every 11-character body of digits and uppercase letters exactly one
\* decimal digit d makes body + d validate true; so when an identifier validates,
\* putting any other digit, or a letter, in place of its last character gives an
\* identifier that validates false.
C11_UniqueCheckDigit ==
    (pc = "figidone" /\ Len(figi) = 12 /\ UpperAlnum(SubSeq(figi, 1, 11))) =>
        LET body == SubSeq(figi, 1, 11)
        IN  /\ Cardinality(Validating(body)) = 1
            /\ result = "True" =>
                   \A c \in (Range(Digits) \cup Range(Upper)) \ {figi[12]} :
                       checkFIGIDigit(body \o <<c>>) = "False"

C11_Witness ==
    /\ pc = "figidone"
    /\ figi = FigiIBM
    /\ result = "True"
    /\ checkFIGIDigit(FigiBadDigit) = "False"

\* C12: for any string whose length is not 12, or that holds a character that is
\* neither a letter nor a digit, checkFIGIDigit returns false: it raises nothing
\* and never returns true.
C12_ValidatesItself ==
    (pc = "figidone" /\ (Len(figi) # 12 \/ \E i \in 1..Len(figi) : ~isalpha(figi[i]) /\ ~isdigit(figi[i]))) =>
        result = "False"

C12_Witness ==
    /\ pc = "figidone"
    /\ Len(figi) = 12
    /\ \E i \in 1..11 : figi[i] = "-"
    /\ result = "False"

(***************************************************************************)
(* Row-count lines of a file with one fields and one data section.         *)
(***************************************************************************)
FirstStart(f) == CHOOSE i \in Places(f, StartOfFile) : \A j \in Places(f, StartOfFile) : i <= j
\* START-OF-FILE somewhere, then one fields section and one data section
Sectioned(f) ==
    /\ Places(f, StartOfFile) # {}
    /\ \A m \in {StartOfFields, EndOfFields, StartOfData, EndOfData} :
           Cardinality(Places(f, m)) = 1
    /\ FirstStart(f) < Place(f, StartOfFields)
    /\ Place(f, StartOfFields) < Place(f, EndOfFields)
    /\ Place(f, EndOfFields) < Place(f, StartOfData)
    /\ Place(f, StartOfData) < Place(f, EndOfData)
\* the lines of such a file that are read in Neutral
NeutralPlaces(f) ==
    { i \in 1..Len(f) :
        \/ FirstStart(f) < i /\ i < Place(f, StartOfFields)
        \/ Place(f, EndOfFields) < i /\ i < Place(f, StartOfData)
        \/ Place(f, EndOfData) < i }
\* a line DATARECORD=<n>
IsCountLine(raw) ==
    LET parts == split(strip(raw), "=")
    IN  strip(parts[1]) = DataRecord /\ Len(parts) = 2 /\ intOk(parts[2])
CountOf(raw) == int(split(strip(raw), "=")[2])
CountPlaces(f) == { i \in NeutralPlaces(f) : IsCountLine(f[i]) }
\* the rows accepted before line i of such a file, given the rows of the result
RowsBefore(f, i, rows) == IF i < Place(f, StartOfData) THEN 0 ELSE rows
RowCountWarnings == SelectSeq(stdout, LAMBDA m : m = RowCountWarning)

\* C13 as claimed: in a parse that succeeds, every DATARECORD=<n> line read in
\* Neutral whose n differs from the number of rows in the final result produces a
\* RowCountWarning, before the data section as well as after it.
C13_WarnsAgainstFinalCount ==
    (pc = "built" /\ Sectioned(file)) =>
        Len(RowCountWarnings) >=
            Cardinality({ i \in CountPlaces(file) : CountOf(file[i]) # self[1].nrows })

\* C13 amended: a DATARECORD=<n> line read in Neutral produces a RowCountWarning
\* iff n differs from the number of rows accepted before that line (none for a
\* line before the data section), and the parse does not fail at such a line.
C13_WarnsAgainstRowsSoFar ==
    (Terminal /\ Sectioned(file)) =>
        /\ pc = "raised" => nlines \notin CountPlaces(file)
        /\ pc = "built" =>
               Len(RowCountWarnings) =
                   Cardinality({ i \in CountPlaces(file) :
                                   CountOf(file[i]) # RowsBefore(file, i, self[1].nrows) })

C13_Witness ==
    /\ pc = "built"
    /\ Sectioned(file)
    /\ self[1].nrows = 1
    /\ \E i \in CountPlaces(file) : i < Place(file, StartOfData) /\ CountOf(file[i]) = 0
    /\ RowCountWarnings = <<>>

\* C14: in every terminal state of a parse (successful return, or abort by any
\* fatal error) the file handle __init__ opened is closed.
C14_HandleReleased == Terminal => fchannel = "closed"

\* the candidate values of a data line as the specification frames it: the tokens
\* after the first three, less a trailing empty token if there is one
CandidateValues(raw) ==
    LET toks == split(strip(raw), "|")
        rest == SubSeq(toks, 4, Len(toks))
    IN  IF rest # <<>> /\ rest[Len(rest)] = <<>> THEN SubSeq(rest, 1, Len(rest) - 1) ELSE rest
LastOf(s) == s[Len(s)]

\* C15: a data line is decodable when its candidate values (a trailing empty
\* token not counted) number the declared fields, whether or not it ends in a
\* delimiter: a file whose data lines are all decodable with a valid identifier
\* as last value parses to one row per line, each row's last field holding the
\* line's last value.
C15_FramingKeepsValues ==
    (/\ Terminal
     /\ OneOfEach(file)
     /\ Len(NamesOf(file)) >= 1
     /\ \A i \in 1..Len(DataOf(file)) :
            /\ Len(CandidateValues(DataOf(file)[i])) = Len(NamesOf(file))
            /\ ValidIdentifier(LastOf(CandidateValues(DataOf(file)[i])))) =>
        /\ pc = "built"
        /\ Len(self[1].dataList) = Len(DataOf(file))
        /\ \A i \in 1..Len(DataOf(file)) :
               self[1].dataList[i][LastOf(NamesOf(file))] = LastOf(CandidateValues(DataOf(file)[i]))

\* C16: in every parsed file, whatever sections the input was made of, the key
\* set of every row is the set of names of the final field sequence.
C16_RowShape ==
    pc = "built" =>
        \A i \in 1..Len(self[1].dataList) :
            DOMAIN self[1].dataList[i] = Range(self[1].fields)

\* C17: a DATARECORD=<n> line read in Neutral is compared with the number of
\* rows accumulated when it is read: a warning is printed iff n differs from that
\* number; either way the state stays Neutral, the field list and the row list
\* are unchanged and the parse goes on.
C17_CountLineComparesRowsSoFar ==
    [][\A raw \in LineSet :
           (/\ pc = "loop"
            /\ state = 0
            /\ nlines' = nlines + 1
            /\ IsCountLine(raw)
            /\ Step(raw)) =>
               /\ pc' = "loop" /\ exc' = NoExc
               /\ state' = 0
               /\ fields' = fields
               /\ dataList' = dataList
               /\ stdout' = IF CountOf(raw) # Len(dataList)
                             THEN Append(stdout, RowCountWarning)
                             ELSE stdout]_vars

C17_Witness ==
    /\ pc = "loop"
    /\ state = 0
    /\ Len(dataList) = 2
    /\ stdout = <<RowCountWarning>>

\* a line the code reads as a row count: DATARECORD somewhere in it and an
\* integer after its first '='
ReadsAsCount(raw) ==
    LET l == strip(raw)
        parts == split(l, "=")
    IN  contains(l, DataRecord) /\ Len(parts) >= 2 /\ intOk(parts[2])

\* C18: in Neutral every line that is not START-OF-FIELDS, START-OF-DATA or a
\* well-formed row-count line is ignored, a line holding DATARECORD without
\* '=<integer>' included: the state stays Neutral, fields and rows are unchanged,
\* nothing is printed and the parse does not fail.
C18_OtherLinesIgnored ==
    [][\A raw \in LineSet :
           (/\ pc = "loop"
            /\ state = 0
            /\ nlines' = nlines + 1
            /\ strip(raw) \notin {StartOfFields, StartOfData}
            /\ ~ReadsAsCount(raw)
            /\ Step(raw)) =>
               /\ pc' = "loop" /\ exc' = NoExc
               /\ state' = 0
               /\ fields' = fields
               /\ dataList' = dataList
               /\ stdout' = stdout]_vars

\* C19: every parse ends either in a returned result or in one of the three
\* declared fatal errors (missing START-OF-FILE, file does not end gracefully,
\* insufficient values in row); no other failure is reachable.
C19_DeclaredOutcomesOnly ==
    /\ pc = "raised" => exc \in {NoStartOfFile, NotGraceful, InsufficientValues}
    /\ pc = "built" => exc = NoExc

\* C20: the state is always one of -1, 0, 1, 2; while it is -1 the field list and
\* the row list are empty; once it has left -1 it never returns there; the field
\* list changes only by one name appended while the state is 1, the row list only
\* by one row appended while the state is 2.
C20_StateMachine ==
    [][/\ state \in {-1, 0, 1, 2} /\ state' \in {-1, 0, 1, 2}
       /\ state' = -1 => (fields' = <<>> /\ dataList' = <<>>)
       /\ state # -1 => state' # -1
       /\ fields' # fields =>
              (state = 1 /\ state' = 1 /\ \E x \in Range(fields') : fields' = Append(fields, x))
       /\ dataList' # dataList =>
              (state = 2 /\ state' = 2 /\ \E r \in Range(dataList') : dataList' = Append(dataList, r))]_vars

C20_Witness ==
    /\ pc = "built"
    /\ state = 0
    /\ Len(fields) = 2
    /\ Len(dataList) = 2

====
